---- MODULE Spec2Model ----
(***************************************************************************)
(* Model of src/src/App.jsx (crop-this-label): the App component's state, *)
(* its event handlers (reset, handleFileUpload, handleRotate) and the      *)
(* label detection pipeline of processImage.                               *)
(*                                                                         *)
(* Numbers.  The code compares IEEE doubles: area < totalArea * 0.01,      *)
(* area > totalArea * 0.99, width / height < 0.2, > 4.0, and               *)
(* cols / rows > 0.4, < 2.5.  For the integer operands the code has        *)
(* (pixel counts below 2^31) each of these comparisons has the same truth  *)
(* value as the exact rational comparison, so they are written here by     *)
(* cross-multiplication over the integers.                                 *)
(*                                                                         *)
(* React state.  The setX calls of one handler invocation are applied     *)
(* together at the end of the synchronous part of that invocation, so one  *)
(* action is the synchronous part of one handler or callback.  A handler  *)
(* reads the state of the render it was created in, which is the current  *)
(* state when the event is delivered.                                      *)
(***************************************************************************)
EXTENDS Integers, Sequences, FiniteSets

----------------------------------------------------------------------------
(* CONFIG, App.jsx 28-34 *)
TARGET_WIDTH == 1200
TARGET_HEIGHT == 1800
(* MIN_AREA_RATIO 0.01 and MAX_AREA_RATIO 0.99 as fractions of 100 *)
MIN_AREA_RATIO_PCT == 1
MAX_AREA_RATIO_PCT == 99

(* bounds of the model *)
MaxUploads == 2
MaxRotates == 2
MaxContours == 2

----------------------------------------------------------------------------
(* Values *)

(* null of useState(null) for file / originalImage / processedImage *)
NullImage == [width |-> 0, height |-> 0, turn |-> 0, run |-> 0]
NoRect == [x |-> 0, y |-> 0, width |-> 0, height |-> 0]
NoPage == [cols |-> 0, rows |-> 0]

(* cv.Rect / the result of cv.boundingRect *)
Rect(x, y, w, h) == [x |-> x, y |-> y, width |-> w, height |-> h]

(* faulty variant of finalSize: the arguments of cv.Size in (rows, cols) order *)
finalSizeSwapped == [width |-> TARGET_HEIGHT, height |-> TARGET_WIDTH]

(* cv.Size(TARGET_WIDTH, TARGET_HEIGHT), line 328 *)
finalSize == [width |-> TARGET_WIDTH, height |-> TARGET_HEIGHT]

(* cv.ROTATE_90_CLOCKWISE / cv.ROTATE_90_COUNTERCLOCKWISE as quarter turns *)
ROTATE_90_CLOCKWISE == 1
ROTATE_90_COUNTERCLOCKWISE == 3

----------------------------------------------------------------------------
(* The vision-engine operations on image dimensions.  An image is its      *)
(* width, height, the quarter turns (clockwise) its content has been       *)
(* turned from the upright crop, and the upload run it came from.          *)

(* faulty variant of cvRotate: turns the content but keeps the canvas dimensions *)
cvRotateKeepDims(img, rotateCode) ==
  [img EXCEPT !.turn = (img.turn + rotateCode) % 4]

(* cv.rotate(src, dst, rotateCode): a 90 degree turn swaps cols and rows *)
cvRotate(img, rotateCode) ==
  [img EXCEPT !.width = img.height, !.height = img.width,
              !.turn = (img.turn + rotateCode) % 4]

(* faulty variant of cvResize: keeps the aspect ratio, fitting the target width *)
cvResizeKeepAspect(img, size) ==
  [img EXCEPT !.width = size.width,
              !.height = (img.height * size.width) \div img.width]

(* cv.resize(roi, final, finalSize, 0, 0, INTER_LANCZOS4): dsize is given, *)
(* so the result has exactly that size whatever the input size             *)
cvResize(img, size) ==
  [img EXCEPT !.width = size.width, !.height = size.height]

(* src.roi(bestRect): the crop has the rectangle's size *)
cvRoi(rect, run) ==
  [width |-> rect.width, height |-> rect.height, turn |-> 0, run |-> run]

----------------------------------------------------------------------------
(* CandidateSelector, processImage lines 271-314 *)

(* faulty variant of AreaRejected: boundary values are discarded too *)
AreaRejectedStrict(area, totalArea) ==
  \/ area * 100 <= totalArea * MIN_AREA_RATIO_PCT
  \/ area * 100 >= totalArea * MAX_AREA_RATIO_PCT

(* line 280: area < totalArea * MIN_AREA_RATIO || area > totalArea * MAX_AREA_RATIO *)
AreaRejected(area, totalArea) ==
  \/ area * 100 < totalArea * MIN_AREA_RATIO_PCT
  \/ area * 100 > totalArea * MAX_AREA_RATIO_PCT

(* faulty variant of RatioRejected: && in place of ||, which rejects nothing *)
RatioRejectedAnd(rect) ==
  /\ rect.width * 5 < rect.height
  /\ rect.width > rect.height * 4

(* lines 285-286: ratio = width / height; ratio < 0.2 || ratio > 4.0 *)
RatioRejected(rect) ==
  \/ rect.width * 5 < rect.height
  \/ rect.width > rect.height * 4

(* lines 274-291: the filter loop, from contour i on, pushing onto acc *)
RECURSIVE FilterLoop(_, _, _, _)
FilterLoop(rects, i, totalArea, acc) ==
  IF i > Len(rects) THEN acc
  ELSE LET rect == rects[i]
           area == rect.width * rect.height
       IN IF AreaRejected(area, totalArea) THEN FilterLoop(rects, i + 1, totalArea, acc)
          ELSE IF RatioRejected(rect) THEN FilterLoop(rects, i + 1, totalArea, acc)
          ELSE FilterLoop(rects, i + 1, totalArea,
                          Append(acc, [area |-> area, rect |-> rect]))

(* faulty variant of PageRatioInWindow: bounds included *)
PageRatioInWindowClosed(src) ==
  src.cols * 10 >= src.rows * 4 /\ src.cols * 10 <= src.rows * 25

(* lines 298-301: pageRatio = cols / rows; pageRatio > 0.4 && pageRatio < 2.5 *)
PageRatioInWindow(src) ==
  src.cols * 10 > src.rows * 4 /\ src.cols * 10 < src.rows * 25

(* line 303: new cv.Rect(0, 0, src.cols, src.rows) *)
fullRect(src) == Rect(0, 0, src.cols, src.rows)

(* faulty variant of InsertByArea: an equal area goes in front (last found wins) *)
RECURSIVE InsertByAreaFront(_, _)
InsertByAreaFront(c, sorted) ==
  IF sorted = <<>> THEN <<c>>
  ELSE IF Head(sorted).area > c.area
       THEN <<Head(sorted)>> \o InsertByAreaFront(c, Tail(sorted))
       ELSE <<c>> \o sorted

(* the comparator (a, b) => b.area - a.area of line 313 under the stable   *)
(* Array.prototype.sort: c goes behind every element whose area is >= its  *)
RECURSIVE InsertByArea(_, _)
InsertByArea(c, sorted) ==
  IF sorted = <<>> THEN <<c>>
  ELSE IF Head(sorted).area >= c.area
       THEN <<Head(sorted)>> \o InsertByArea(c, Tail(sorted))
       ELSE <<c>> \o sorted

(* line 313: candidates.sort((a, b) => b.area - a.area) *)
RECURSIVE SortCandidates(_, _)
SortCandidates(cands, acc) ==
  IF cands = <<>> THEN acc
  ELSE SortCandidates(Tail(cands), InsertByArea(Head(cands), acc))

(* faulty variant of IsLandscape: a square crop is turned too *)
IsLandscapeOrSquare(roi) == roi.width >= roi.height

(* line 319: roi.cols > roi.rows *)
IsLandscape(roi) == roi.width > roi.height

----------------------------------------------------------------------------
(* processImage's img.onload body, lines 228-345, as the sequence of its   *)
(* effects in program order: vision-engine calls (each may throw), buffer  *)
(* allocations and releases, log lines and state setters.                  *)

Buffers == {"src", "dst", "gray", "blur", "thresh", "kernel", "contours", "c",
            "hierarchy", "roi", "rotated", "final"}

(* the calls into the browser and the vision engine that may throw *)
Stages == {"getImageData", "matFromImageData", "cvtColor", "GaussianBlur", "threshold",
           "getStructuringElement", "dilate", "findContours", "boundingRect",
           "roi", "rotate", "resize", "imshow"}

Call(stage) == [op |-> "call", arg |-> stage]
New(buf) == [op |-> "new", arg |-> buf]
Delete(buf) == [op |-> "delete", arg |-> buf]
Log(msg) == [op |-> "addLog", arg |-> msg]
Throw(msg) == [op |-> "throw", arg |-> msg]
Set(what) == [op |-> "set", arg |-> what]

(* lines 230-269: Preprocessor and RegionExtractor *)
PreprocessOps ==
  << Log("Starting Computer Vision analysis..."),
     Call("getImageData"),
     Call("matFromImageData"), New("src"),
     New("dst"), New("gray"), New("blur"), New("thresh"),
     Call("cvtColor"), Call("GaussianBlur"), Call("threshold"),
     Call("getStructuringElement"), New("kernel"),
     Call("dilate"),
     New("contours"), New("hierarchy"),
     Call("findContours"),
     Log("Found potential contours.") >>

(* lines 274-291: each iteration takes contours.get(i) and its bounding    *)
(* rectangle; the Mat that get returns is not deleted anywhere             *)
RECURSIVE LoopOps(_)
LoopOps(n) ==
  IF n = 0 THEN <<>> ELSE <<New("c"), Call("boundingRect")>> \o LoopOps(n - 1)

(* lines 306-309: cleanup and fail *)
NoLabelOps ==
  << Delete("src"), Delete("dst"), Delete("gray"), Delete("blur"),
     Delete("thresh"), Delete("kernel"), Delete("contours"), Delete("hierarchy"),
     Throw("No shipping label detected.") >>

(* lines 296-311 *)
FallbackOps(empty, inWindow) ==
  IF ~empty THEN <<>>
  ELSE <<Log("No specific label contour found. Checking for fallback...")>> \o
       (IF inWindow THEN <<Log("Fallback triggered: Using full image as label.")>>
        ELSE NoLabelOps)

(* lines 313-342; after line 324 the name roi is bound to the rotated Mat, *)
(* so roi.delete() of line 338 releases that one                           *)
CropOps(landscape) ==
  << Log("Target locked."), Call("roi"), New("roi") >> \o
  (IF landscape
   THEN << Log("Detected Landscape orientation. Rotating 90 degrees..."),
           New("rotated"), Call("rotate"), Delete("roi") >>
   ELSE <<>>) \o
  << New("final"), Call("resize"), Call("imshow"), Set("processedImage"),
     Delete("src"), Delete("dst"), Delete("gray"), Delete("blur"),
     Delete("thresh"), Delete("kernel"), Delete("contours"), Delete("hierarchy"),
     Delete(IF landscape THEN "rotated" ELSE "roi"), Delete("final"),
     Set("status"), Log("Processing Complete!") >>

(* the ops of seq in front of the first call of stage throwAt; all of seq  *)
(* when that stage is not called                                           *)
RECURSIVE UntilThrow(_, _)
UntilThrow(seq, throwAt) ==
  IF seq = <<>> THEN <<>>
  ELSE IF Head(seq) = Call(throwAt) THEN <<Throw(throwAt)>>
  ELSE IF Head(seq).op = "throw" THEN <<Head(seq)>>
  ELSE <<Head(seq)>> \o UntilThrow(Tail(seq), throwAt)

CountOps(seq, o) == Cardinality({i \in DOMAIN seq : seq[i] = o})

(* the log lines of an executed op sequence, in order *)
RECURSIVE LogsOf(_)
LogsOf(seq) ==
  IF seq = <<>> THEN <<>>
  ELSE (IF Head(seq).op = "addLog" THEN <<Head(seq).arg>> ELSE <<>>) \o LogsOf(Tail(seq))

(* One invocation of the onload body for the page and contour rectangles   *)
(* of a source image, with the stage throwAt throwing ("none": no stage).  *)
(* The fields are the locals of the function as far as it got.             *)
CvRun(page, rects, run, throwAt) ==
  LET totalArea == page.cols * page.rows
      filtered == FilterLoop(rects, 1, totalArea, <<>>)
      empty == filtered = <<>>
      inWindow == PageRatioInWindow(page)
      candidates == IF empty /\ inWindow
                    THEN <<[area |-> totalArea, rect |-> fullRect(page)]>>
                    ELSE filtered
      sorted == SortCandidates(candidates, <<>>)
      bestRect == sorted[1].rect
      roi0 == cvRoi(bestRect, run)
      landscape == IsLandscape(roi0)
      roi == IF landscape THEN cvRotate(roi0, ROTATE_90_CLOCKWISE) ELSE roi0
      final == cvResize(roi, finalSize)
      fail == empty /\ ~inWindow
      path == PreprocessOps \o LoopOps(Len(rects)) \o FallbackOps(empty, inWindow) \o
              (IF fail THEN <<>> ELSE CropOps(landscape))
      done == UntilThrow(path, throwAt)
      last == done[Len(done)]
      did(o) == CountOps(done, o) > 0
  IN [ ops |-> done,
       outcome |-> IF last.op = "throw" THEN "rejected" ELSE "resolved",
       error |-> IF last.op = "throw" THEN last.arg ELSE "",
       src |-> IF did(New("src")) THEN page ELSE NoPage,
       filtered |-> IF did(Log("Found potential contours.")) /\ ~did(Throw("boundingRect"))
                    THEN filtered ELSE <<>>,
       fallback |-> did(Log("Fallback triggered: Using full image as label.")),
       candidates |-> IF did(Log("Target locked.")) THEN sorted ELSE <<>>,
       bestRect |-> IF did(Log("Target locked.")) THEN bestRect ELSE NoRect,
       crop |-> IF did(New("roi")) THEN roi0 ELSE NullImage,
       rotated |-> did(New("rotated")) /\ ~did(Throw("rotate")),
       roi |-> IF did(New("final")) THEN roi ELSE NullImage,
       final |-> IF did(Call("resize")) THEN final ELSE NullImage,
       mats |-> [b \in Buffers |-> [new |-> CountOps(done, New(b)),
                                    deleted |-> CountOps(done, Delete(b))]] ]

----------------------------------------------------------------------------
(* Inputs: the documents a user may select.  A document is its declared    *)
(* type, whether the reader / PDF renderer resolves, whether the browser   *)
(* can decode the resulting image, and what the vision engine sees in it:  *)
(* the page size and the bounding rectangles of the contours it finds, in  *)
(* extraction order.                                                       *)

NoFile == [type |-> "", readable |-> FALSE, decodable |-> FALSE,
           page |-> NoPage, contours |-> <<>>]

Doc(type, page, contours) ==
  [type |-> type, readable |-> TRUE, decodable |-> TRUE,
   page |-> page, contours |-> contours]

Page(w, h) == [cols |-> w, rows |-> h]

(* documents of the application-level specification: a label that is     *)
(* detected and rotated (scenario 2), a page without a label (scenario 4), *)
(* a PDF that cannot be rendered, an image that cannot be decoded and an   *)
(* unsupported type                                                        *)
Files ==
  { Doc("application/pdf", Page(2400, 3600), <<Rect(200, 200, 1500, 1000)>>),
    Doc("image/jpeg", Page(3000, 500), <<>>),
    [Doc("application/pdf", NoPage, <<>>) EXCEPT !.readable = FALSE, !.decodable = FALSE],
    [Doc("image/png", NoPage, <<>>) EXCEPT !.decodable = FALSE],
    [Doc("text/plain", NoPage, <<>>) EXCEPT !.readable = FALSE, !.decodable = FALSE] }

(* lines 110-118 *)
Supported(f) == f.type = "application/pdf" \/ f.type \in {"image/png", "image/jpeg"}

----------------------------------------------------------------------------
(* State *)

VARIABLES
  status,           \* useState('loading'), line 19
  logs,             \* line 20, the messages without their timestamps
  file,             \* line 21
  originalImage,    \* line 22
  processedImage,   \* line 23
  librariesLoaded,  \* line 24
  runs,             \* handleFileUpload invocations suspended at an await
  rotations,        \* handleRotate invocations waiting for img.onload
  nUploads,         \* number of handleFileUpload invocations so far
  nRotates,         \* number of handleRotate invocations so far
  ended,            \* how each upload run ended: "" while it has not
  lastRun,          \* the locals of the processImage onload body run by the latest step
  lastRotate        \* the latest completed handleRotate, while only rotations follow it

vars == <<status, logs, file, originalImage, processedImage, librariesLoaded,
          runs, rotations, nUploads, nRotates, ended, lastRun, lastRotate>>

NoRun == [CvRun(NoPage, <<>>, 0, "getImageData") EXCEPT !.ops = <<>>, !.outcome = "", !.error = ""]

(* no handleRotate has completed *)
NoRotate == [from |-> NullImage, direction |-> "", to |-> NullImage]

Init ==
  /\ status = "loading"
  /\ logs = <<"Initializing environment...">>
  /\ file = NoFile
  /\ originalImage = NullImage
  /\ processedImage = NullImage
  /\ librariesLoaded = [cv |-> FALSE, pdf |-> FALSE]
  /\ runs = {}
  /\ rotations = {}
  /\ nUploads = 0
  /\ nRotates = 0
  /\ ended = [n \in 1..MaxUploads |-> ""]
  /\ lastRun = NoRun
  /\ lastRotate = NoRotate

----------------------------------------------------------------------------
(* Actions *)

(* lines 45-48 / 62-65 and the effect of lines 76-81 *)
LoadLibrary(lib) ==
  /\ ~librariesLoaded[lib]
  /\ librariesLoaded' = [librariesLoaded EXCEPT ![lib] = TRUE]
  /\ LET msg == IF lib = "pdf" THEN "PDF Engine loaded." ELSE "OpenCV Engine loaded."
     IN IF librariesLoaded'["cv"] /\ librariesLoaded'["pdf"]
        THEN /\ status' = "ready"
             /\ logs' = logs \o <<msg, "System Ready. Upload a shipping label.">>
        ELSE /\ status' = status
             /\ logs' = Append(logs, msg)
  /\ UNCHANGED <<file, originalImage, processedImage, runs, rotations,
                 nUploads, nRotates, ended>>
  /\ lastRun' = NoRun
  /\ lastRotate' = NoRotate

(* lines 88-95; the Reset button is enabled while processedImage is set    *)
(* (line 574) and the error panel's link is shown while status is 'error'  *)
(* (lines 532-542)                                                         *)
reset ==
  /\ processedImage # NullImage \/ status = "error"
  /\ file' = NoFile
  /\ originalImage' = NullImage
  /\ processedImage' = NullImage
  /\ status' = "ready"
  /\ logs' = <<"Ready for new file.">>
  /\ UNCHANGED <<librariesLoaded, runs, rotations, nUploads, nRotates, ended>>
  /\ lastRun' = NoRun
  /\ lastRotate' = NoRotate

(* lines 98-118, the synchronous part up to the first await; the file      *)
(* input is disabled while status is 'processing' or 'loading' (line 413)  *)
handleFileUpload(f) ==
  /\ status \notin {"processing", "loading"}
  /\ nUploads < MaxUploads
  /\ nUploads' = nUploads + 1
  /\ file' = f
  /\ originalImage' = NullImage
  /\ processedImage' = NullImage
  /\ IF Supported(f)
     THEN /\ status' = "processing"
          /\ logs' = <<"Ready for new file.", "Processing file",
                       IF f.type = "application/pdf"
                       THEN "Detected PDF. Converting to image..."
                       ELSE "Detected Image. Loading...">>
          /\ runs' = runs \cup {[run |-> nUploads', file |-> f, stage |-> "reading"]}
          /\ ended' = ended
     ELSE /\ status' = "error"
          /\ logs' = <<"Ready for new file.", "Processing file",
                       "Error: Unsupported file type. Please upload PDF, PNG, or JPG.">>
          /\ runs' = runs
          /\ ended' = [ended EXCEPT ![nUploads'] = "error"]
  /\ UNCHANGED <<librariesLoaded, rotations, nRotates>>
  /\ lastRun' = NoRun
  /\ lastRotate' = NoRotate

(* lines 112 / 115 settle: on success lines 120-121 and 225-227, 347 run   *)
(* (processImage creates the Image and sets its src); on failure the catch *)
(* of lines 123-127                                                        *)
ReadSettled(t) ==
  /\ t \in runs
  /\ t.stage = "reading"
  /\ IF t.file.readable
     THEN /\ originalImage' = [width |-> t.file.page.cols, height |-> t.file.page.rows,
                               turn |-> 0, run |-> t.run]
          /\ runs' = (runs \ {t}) \cup {[t EXCEPT !.stage = "loading"]}
          /\ logs' = IF t.file.type = "application/pdf"
                     THEN Append(logs, "PDF Loaded. Analyzing Page 1...") ELSE logs
          /\ UNCHANGED <<status, ended>>
     ELSE /\ status' = "error"
          /\ logs' = Append(logs, "Error: cannot read file")
          /\ runs' = runs \ {t}
          /\ ended' = [ended EXCEPT ![t.run] = "error"]
          /\ UNCHANGED originalImage
  /\ UNCHANGED <<file, processedImage, librariesLoaded, rotations, nUploads, nRotates>>
  /\ lastRun' = NoRun
  /\ lastRotate' = NoRotate

(* line 126: addLog(`Error: ${err.message}`); the message of the Error of *)
(* line 309 is its text, what an engine call throws carries the engine's   *)
(* own message, the same line for every stage here                         *)
ErrorLine(error) ==
  IF error \in Stages THEN "Error: (engine exception)" ELSE "Error: " \o error

(* lines 228-345 followed by the continuation of handleFileUpload: resolve *)
(* ends it, reject(e) of line 344 reaches the catch of lines 123-127       *)
ImageOnload(t, throwAt) ==
  /\ t \in runs
  /\ t.stage = "loading"
  /\ t.file.decodable
  /\ lastRun' = CvRun(t.file.page, t.file.contours, t.run, throwAt)
  /\ processedImage' = IF CountOps(lastRun'.ops, Set("processedImage")) > 0
                       THEN lastRun'.final ELSE processedImage
  /\ status' = IF lastRun'.outcome = "rejected" THEN "error"
               ELSE IF CountOps(lastRun'.ops, Set("status")) > 0 THEN "success" ELSE status
  /\ logs' = logs \o LogsOf(lastRun'.ops) \o
             (IF lastRun'.outcome = "rejected" THEN <<ErrorLine(lastRun'.error)>> ELSE <<>>)
  /\ ended' = [ended EXCEPT ![t.run] = IF lastRun'.outcome = "rejected" THEN "error" ELSE "success"]
  /\ runs' = runs \ {t}
  /\ UNCHANGED <<file, originalImage, librariesLoaded, rotations, nUploads, nRotates>>
  /\ lastRotate' = NoRotate

(* the image fails to load: processImage assigns img.onload only (lines    *)
(* 226-228, 347), so no code runs and its promise is never settled         *)
ImageLoadError(t) ==
  /\ t \in runs
  /\ t.stage = "loading"
  /\ ~t.file.decodable
  /\ runs' = (runs \ {t}) \cup {[t EXCEPT !.stage = "failed"]}
  /\ UNCHANGED <<status, logs, file, originalImage, processedImage, librariesLoaded,
                 rotations, nUploads, nRotates, ended>>
  /\ lastRun' = NoRun
  /\ lastRotate' = NoRotate

(* lines 163-170, 188: the synchronous part of handleRotate.  The Rotate   *)
(* buttons are disabled while processedImage is null (lines 557, 565); a   *)
(* call without an output image returns at line 164                        *)
handleRotate(direction) ==
  /\ nRotates < MaxRotates
  /\ nRotates' = nRotates + 1
  /\ IF processedImage = NullImage
     THEN UNCHANGED <<rotations, status>>
     ELSE /\ rotations' = rotations \cup {[id |-> nRotates', direction |-> direction,
                                            oldStatus |-> status, img |-> processedImage]}
          /\ status' = "processing"
  /\ UNCHANGED <<logs, file, originalImage, processedImage, librariesLoaded,
                 runs, nUploads, ended, lastRotate>>
  /\ lastRun' = NoRun

(* faulty variant of rotateCode: clockwise whatever the direction *)
rotateCodeClockwise(direction) ==
  ROTATE_90_CLOCKWISE

(* line 176 *)
rotateCode(direction) ==
  IF direction = "left" THEN ROTATE_90_COUNTERCLOCKWISE ELSE ROTATE_90_CLOCKWISE

(* faulty variant of RotateOnload: ends in 'success' instead of the status *)
(* captured at the click                                                   *)
RotateOnloadSuccess(r) ==
  /\ r \in rotations
  /\ processedImage' = cvRotate(r.img, rotateCode(r.direction))
  /\ status' = "success"
  /\ rotations' = rotations \ {r}
  /\ lastRotate' = [from |-> r.img, direction |-> r.direction, to |-> processedImage']
  /\ UNCHANGED <<logs, file, originalImage, librariesLoaded, runs,
                 nUploads, nRotates, ended>>
  /\ lastRun' = NoRun

(* lines 171-187: img.onload of handleRotate *)
RotateOnload(r) ==
  /\ r \in rotations
  /\ processedImage' = cvRotate(r.img, rotateCode(r.direction))
  /\ status' = r.oldStatus
  /\ rotations' = rotations \ {r}
  /\ lastRotate' = [from |-> r.img, direction |-> r.direction, to |-> processedImage']
  /\ UNCHANGED <<logs, file, originalImage, librariesLoaded, runs,
                 nUploads, nRotates, ended>>
  /\ lastRun' = NoRun

(* the stages that throw in the application-level specification: the first *)
(* engine call on the source, the rotation of the crop and the last call   *)
(* before setProcessedImage                                                *)
ThrowPoints == {"cvtColor", "rotate", "imshow"}

Next ==
  \/ \E lib \in {"cv", "pdf"} : LoadLibrary(lib)
  \/ reset
  \/ \E f \in Files : handleFileUpload(f)
  \/ \E t \in runs : ReadSettled(t)
  \/ \E t \in runs, throwAt \in ThrowPoints \cup {"none"} : ImageOnload(t, throwAt)
  \/ \E t \in runs : ImageLoadError(t)
  \/ \E d \in {"left", "right"} : handleRotate(d)
  \/ \E r \in rotations : RotateOnload(r)

Spec == Init /\ [][Next]_vars

----------------------------------------------------------------------------
(* The pipeline on its own: one upload whose source image is about to      *)
(* load, for every page of Pages and every list of at most MaxContours     *)
(* bounding rectangles on it.                                              *)

Pages == { Page(2400, 3600), Page(1000, 1400), Page(3000, 500), Page(100, 100),
           Page(100, 41), Page(20, 50), Page(50, 20) }

(* width and height of the rectangles tried: the sizes of the spec's       *)
(* scenarios, sizes on and next to each filter boundary of a 100 x 100     *)
(* page, and two sizes of equal area                                       *)
RectSizes == { <<1000, 1500>>, <<1500, 1000>>, <<100, 100>>, <<100, 99>>, <<10, 10>>,
               <<5, 20>>, <<9, 11>>, <<20, 100>>, <<19, 100>>, <<100, 25>>,
               <<100, 24>>, <<1, 1>> }

RectsOn(page) ==
  { Rect(0, 0, s[1], s[2]) : s \in { z \in RectSizes : z[1] <= page.cols /\ z[2] <= page.rows } }

ContourLists(page) == UNION { [1..n -> RectsOn(page)] : n \in 0..MaxContours }

PipelineFiles ==
  UNION { { Doc("image/png", page, cs) : cs \in ContourLists(page) } : page \in Pages }

(* the state handleFileUpload leaves when it awaits processImage, from a   *)
(* freshly loaded application                                              *)
PipelineInit ==
  \E f \in PipelineFiles :
    /\ status = "processing"
    /\ logs = <<"Ready for new file.", "Processing file", "Detected Image. Loading...">>
    /\ file = f
    /\ originalImage = [width |-> f.page.cols, height |-> f.page.rows, turn |-> 0, run |-> 1]
    /\ processedImage = NullImage
    /\ librariesLoaded = [cv |-> TRUE, pdf |-> TRUE]
    /\ runs = {[run |-> 1, file |-> f, stage |-> "loading"]}
    /\ rotations = {}
    /\ nUploads = 1
    /\ nRotates = 0
    /\ ended = [n \in 1..MaxUploads |-> ""]
    /\ lastRun = NoRun
    /\ lastRotate = NoRotate

PipelineNext == \E t \in runs, throwAt \in Stages \cup {"none"} : ImageOnload(t, throwAt)

PipelineSpec == PipelineInit /\ [][PipelineNext]_vars

----------------------------------------------------------------------------
(* Properties of the pipeline (verified under PipelineSpec) *)

(* the latest onload body executed op o *)
Did(o) == CountOps(lastRun.ops, o) > 0

(* the latest onload body got past the filter loop *)
ReachedSelection == Did(Log("Found potential contours.")) /\ ~Did(Throw("boundingRect"))

(* the page the latest run worked on *)
pageArea == file.page.cols * file.page.rows

(* C1: a run that ends in status 'success' has produced an output image of *)
(* exactly TARGET_WIDTH x TARGET_HEIGHT, whatever the page, the selected   *)
(* rectangle and the rotation.                                             *)
C1_SuccessHasTargetSize ==
  lastRun.outcome = "resolved" =>
    /\ status = "success"
    /\ lastRun.final.width = 1200 /\ lastRun.final.height = 1800
    /\ processedImage.width = 1200 /\ processedImage.height = 1800

C1_Witness ==
  /\ lastRun.outcome = "resolved"
  /\ lastRun.fallback /\ lastRun.rotated
  /\ lastRun.crop.width = 100 /\ lastRun.crop.height = 41
  /\ processedImage = lastRun.final

(* C2: the whole-page fallback is used iff no rectangle survives filtering *)
(* and 0.4 < cols/rows < 2.5 (strict), and then the region is the whole    *)
(* page; with no survivor and a ratio outside the window the run fails     *)
(* with 'No shipping label detected.', sets no output image and ends in    *)
(* status 'error'.                                                         *)
C2_FallbackIffEmptyAndInWindow ==
  ReachedSelection =>
    LET inWindow == 4 * file.page.rows < 10 * file.page.cols
                    /\ 10 * file.page.cols < 25 * file.page.rows
    IN /\ lastRun.fallback <=> (lastRun.filtered = <<>> /\ inWindow)
       /\ lastRun.fallback /\ Did(Log("Target locked.")) =>
            lastRun.bestRect = [x |-> 0, y |-> 0, width |-> file.page.cols,
                                height |-> file.page.rows]
       /\ (lastRun.filtered = <<>> /\ ~inWindow) =>
            /\ lastRun.error = "No shipping label detected."
            /\ lastRun.final = NullImage
            /\ processedImage = NullImage
            /\ status = "error"
            /\ logs[Len(logs)] = "Error: No shipping label detected."
       /\ lastRun.error = "No shipping label detected." =>
            (lastRun.filtered = <<>> /\ ~inWindow)

(* a page of ratio exactly 0.4 with every rectangle filtered out fails *)
C2_Witness ==
  /\ ReachedSelection
  /\ file.page = Page(20, 50)
  /\ Len(file.contours) > 0
  /\ lastRun.filtered = <<>>
  /\ status = "error"
  /\ lastRun.error = "No shipping label detected."

(* the filter condition of a candidate, as the spec states it *)
WithinBounds(c, totalArea) ==
  /\ totalArea <= 100 * c.area
  /\ 100 * c.area <= 99 * totalArea
  /\ c.rect.height <= 5 * c.rect.width
  /\ c.rect.width <= 4 * c.rect.height

(* C3 as stated: every candidate that reaches selection is within the area *)
(* and aspect-ratio bounds.                                                *)
C3_EveryCandidateWithinBounds ==
  \A i \in DOMAIN lastRun.candidates : WithinBounds(lastRun.candidates[i], pageArea)

(* C3 amended: every candidate that reaches selection is within the bounds *)
(* unless it is the whole-page fallback candidate, which is the only       *)
(* candidate of its run, has area = totalPageArea (above the upper area    *)
(* bound) and 0.4 < width/height < 2.5.                                    *)
C3_CandidatesWithinBoundsOrFallback ==
  IF lastRun.fallback /\ Did(Log("Target locked."))
  THEN /\ Len(lastRun.candidates) = 1
       /\ lastRun.candidates[1].area = pageArea
       /\ lastRun.candidates[1].rect.width = file.page.cols
       /\ lastRun.candidates[1].rect.height = file.page.rows
       /\ 4 * lastRun.candidates[1].rect.height < 10 * lastRun.candidates[1].rect.width
       /\ 10 * lastRun.candidates[1].rect.width < 25 * lastRun.candidates[1].rect.height
  ELSE \A i \in DOMAIN lastRun.candidates : WithinBounds(lastRun.candidates[i], pageArea)

(* selection among the survivors of a list from which one was discarded *)
C3_Witness ==
  /\ ~lastRun.fallback
  /\ Len(lastRun.candidates) >= 1
  /\ Len(file.contours) > Len(lastRun.candidates)
  /\ lastRun.bestRect # NoRect

(* C4: the filter loop keeps exactly the rectangles whose area lies in     *)
(* [1%, 99%] of the page area and whose width/height lies in [0.2, 4.0],   *)
(* boundary values included, in extraction order.                          *)
C4_FilterKeepsExactlyInBounds ==
  ReachedSelection =>
    LET asCandidate(r) == [area |-> r.width * r.height, rect |-> r]
        keep(r) == WithinBounds(asCandidate(r), pageArea)
        kept == SelectSeq(file.contours, keep)
    IN lastRun.filtered = [i \in 1..Len(kept) |-> asCandidate(kept[i])]

(* the whole page discarded and area exactly 99% of the page kept *)
C4_Witness ==
  /\ ReachedSelection
  /\ Len(file.contours) = 2
  /\ file.contours[1].width * file.contours[1].height = pageArea
  /\ Len(lastRun.filtered) = 1
  /\ 100 * lastRun.filtered[1].area = 99 * pageArea

(* C5: when a candidate survives, the chosen BestRegion is the survivor of *)
(* maximal area that comes first in extraction order.                      *)
C5_BestIsFirstOfMaxArea ==
  (Did(Log("Target locked.")) /\ lastRun.filtered # <<>>) =>
    \E i \in DOMAIN lastRun.filtered :
      /\ lastRun.bestRect = lastRun.filtered[i].rect
      /\ \A j \in DOMAIN lastRun.filtered : lastRun.filtered[j].area <= lastRun.filtered[i].area
      /\ \A j \in 1..(i - 1) : lastRun.filtered[j].area < lastRun.filtered[i].area

(* two survivors of equal area, the first one chosen *)
C5_Witness ==
  /\ Did(Log("Target locked."))
  /\ Len(lastRun.filtered) >= 2
  /\ lastRun.filtered[1].area = lastRun.filtered[2].area
  /\ lastRun.filtered[1].rect # lastRun.filtered[2].rect
  /\ lastRun.bestRect = lastRun.filtered[1].rect

(* C6: the crop is rotated 90 degrees clockwise exactly when it is wider   *)
(* than tall, the rotation swaps its width and height, and the crop handed *)
(* to the resampler has height >= width; a square crop is not rotated.     *)
C6_RotatedIffLandscape ==
  lastRun.roi # NullImage =>
    /\ lastRun.rotated <=> (lastRun.crop.width > lastRun.crop.height)
    /\ lastRun.rotated =>
         /\ lastRun.roi.width = lastRun.crop.height
         /\ lastRun.roi.height = lastRun.crop.width
         /\ lastRun.roi.turn = 1
    /\ ~lastRun.rotated => lastRun.roi = lastRun.crop
    /\ lastRun.roi.height >= lastRun.roi.width

C6_Witness ==
  /\ lastRun.roi # NullImage
  /\ lastRun.rotated
  /\ lastRun.crop.width = 1500 /\ lastRun.crop.height = 1000
  /\ lastRun.roi.width = 1000 /\ lastRun.roi.height = 1500

----------------------------------------------------------------------------
(* Properties of the application (verified under Spec) *)

(* C7: once the libraries are loaded the status changes only along         *)
(* ready -> processing, processing -> success, processing -> error, and    *)
(* from success or error back to ready only through reset.  A              *)
(* handleFileUpload step is taken as its calls in sequence: reset(),       *)
(* setStatus('processing') and, for an unsupported type, setStatus('error')*)
C7_OnlyRunTransitions ==
  [][ (status # "loading" /\ status' # status) =>
        \/ \E f \in Files : handleFileUpload(f)
        \/ <<status, status'>> \in { <<"ready", "processing">>,
                                     <<"processing", "success">>,
                                     <<"processing", "error">> }
        \/ (status \in {"success", "error"} /\ status' = "ready" /\ reset) ]_vars

(* no callback is pending: every read has settled, every image has loaded *)
(* or failed to load, every rotation has completed                         *)
Quiescent ==
  /\ \A t \in runs : t.stage = "failed"
  /\ rotations = {}

(* C8: every run started by handleFileUpload ends in 'success' or in       *)
(* 'error', whatever the outcome of the steps it waits on: once nothing is *)
(* pending any more, every run that was started has ended.                 *)
C8_EveryRunEnds ==
  Quiescent => \A n \in 1..nUploads : ended[n] \in {"success", "error"}

(* C9: when a processImage invocation has ended, every buffer it allocated *)
(* has been released exactly once.                                         *)
C9_EveryBufferReleasedOnce ==
  lastRun.ops # <<>> =>
    \A b \in Buffers : lastRun.mats[b].deleted = lastRun.mats[b].new

(* C10 as stated: an output image exposed for printing or download has     *)
(* exactly TARGET_WIDTH x TARGET_HEIGHT.                                   *)
C10_ExposedImageHasTargetSize ==
  (processedImage # NullImage /\ status = "success") =>
    (processedImage.width = 1200 /\ processedImage.height = 1800)

(* C10 amended: an output image exposed for printing or download has       *)
(* TARGET_WIDTH x TARGET_HEIGHT or, after manual rotation, TARGET_HEIGHT x *)
(* TARGET_WIDTH; as long as no manual rotation was requested it has        *)
(* TARGET_WIDTH x TARGET_HEIGHT.                                           *)
C10_ExposedImageHasTargetSizeEitherWay ==
  (processedImage # NullImage /\ status = "success") =>
    /\ \/ (processedImage.width = 1200 /\ processedImage.height = 1800)
       \/ (processedImage.width = 1800 /\ processedImage.height = 1200)
    /\ nRotates = 0 => (processedImage.width = 1200 /\ processedImage.height = 1800)

(* a manually rotated output image, exposed *)
C10_Witness ==
  /\ status = "success"
  /\ rotations = {}
  /\ nRotates = 1
  /\ processedImage.width = 1800 /\ processedImage.height = 1200

----------------------------------------------------------------------------
(* Properties of manual rotation and reset (verified under Spec) *)

(* quarter turns clockwise added by a rotation in the given direction *)
QuarterTurns(direction) == IF direction = "left" THEN 3 ELSE 1

Opposite(direction) == IF direction = "left" THEN "right" ELSE "left"

(* C11: every completed handleRotate leaves an output image that is the    *)
(* image it was requested on with width and height swapped and turned a    *)
(* quarter turn in the requested direction; and when a rotation completes  *)
(* that was requested on the result of a completed rotation in the         *)
(* opposite direction, the output image is again the image the first of    *)
(* the two was requested on (same width, height and orientation).          *)
C11_RotateSwapsAndRoundTrips ==
  [][\A r \in rotations : RotateOnload(r) =>
        /\ processedImage'.width = r.img.height
        /\ processedImage'.height = r.img.width
        /\ processedImage'.turn = (r.img.turn + QuarterTurns(r.direction)) % 4
        /\ (lastRotate # NoRotate /\ lastRotate.to = r.img
              /\ lastRotate.direction = Opposite(r.direction))
             => processedImage' = lastRotate.from]_vars

(* left then right, one after the other, on the output of a run: the       *)
(* output image is the one the run produced                                *)
C11_Witness ==
  /\ nRotates = 2 /\ rotations = {}
  /\ lastRotate.direction = "right"
  /\ lastRotate.from.width = 1800 /\ lastRotate.from.height = 1200
  /\ lastRotate.from.turn = (processedImage.turn + 3) % 4
  /\ lastRotate.to = processedImage
  /\ processedImage = cvResize(cvRotate(cvRoi(file.contours[1], 1), ROTATE_90_CLOCKWISE), finalSize)

(* C12: a handleRotate call and its img.onload run no detection and leave  *)
(* the selected file, the original image and the log as they were; when    *)
(* the onload completes, the status is the one the call found; a call made *)
(* while there is no output image changes none of the application's state. *)
C12_RotateChangesOnlyOutput ==
  [][/\ (\E d \in {"left", "right"} : handleRotate(d)) =>
          /\ file' = file /\ originalImage' = originalImage /\ logs' = logs
          /\ runs' = runs /\ ended' = ended /\ lastRun' = NoRun
          /\ processedImage' = processedImage
          /\ processedImage = NullImage =>
                /\ status' = status /\ rotations' = rotations
                /\ librariesLoaded' = librariesLoaded
     /\ \A r \in rotations : RotateOnload(r) =>
          /\ file' = file /\ originalImage' = originalImage /\ logs' = logs
          /\ runs' = runs /\ ended' = ended /\ lastRun' = NoRun
          /\ status' = r.oldStatus]_vars

(* one rotation requested in status 'success' has completed *)
C12_Witness ==
  /\ nRotates = 1 /\ rotations = {}
  /\ lastRotate # NoRotate /\ lastRotate.to = processedImage
  /\ status = "success"
  /\ file # NoFile /\ originalImage # NullImage
  /\ logs[Len(logs)] = "Processing Complete!"

(* the state reset leaves, as long as no file has been submitted since *)
AfterReset ==
  /\ file = NoFile /\ originalImage = NullImage /\ processedImage = NullImage
  /\ status = "ready"

(* C13: reset leaves the selected file, the original image and the output  *)
(* image absent and the status 'ready'; from then on, until a file is      *)
(* submitted, no step brings back an output image and no step changes the  *)
(* status: neither a rotation's nor an earlier run's image-load callback   *)
(* that fires after the reset.                                             *)
C13_ResetDiscardsForGood ==
  [][/\ reset => AfterReset'
     /\ AfterReset =>
          /\ processedImage' = NullImage
          /\ status' = "ready" \/ \E f \in Files : handleFileUpload(f)]_vars

(* C14: at most one upload run is in progress; while a run has reached     *)
(* neither success nor error it is the run of the selected file, the       *)
(* status is 'processing' and there is no output image, so the file input  *)
(* stays disabled and nothing of an earlier run or rotation is shown.      *)
C14_OneRunAtATime ==
  /\ Cardinality(runs) <= 1
  /\ \A t \in runs :
       /\ t.run = nUploads /\ file = t.file
       /\ status = "processing"
       /\ processedImage = NullImage

(* the latest upload run has succeeded and no reset or upload followed it *)
LatestRunSucceeded ==
  nUploads > 0 /\ ended[nUploads] = "success" /\ file # NoFile /\ runs = {}

(* C15: the status is never 'processing' when no run and no rotation is    *)
(* pending; and when the latest run has succeeded and every rotation       *)
(* requested on its output has completed, the status is 'success'.         *)
C15_RotationsEndInSuccess ==
  /\ (runs = {} /\ rotations = {}) => status # "processing"
  /\ (LatestRunSucceeded /\ rotations = {}) => status = "success"

====
